---- MODULE Spec2Model ----
(***************************************************************************)
(* The search API route of curato (src/pages/api/search.ts): the handler,  *)
(* convertNaturalLanguageToArtsyParams (model call + argument cleaning),   *)
(* and queryArtsy (query compilation, catalog call, result shaping).       *)
(*                                                                         *)
(* Text is a sequence of tokens.  The characters that matter to the        *)
(* GraphQL lexer (the double quote and the backslash) and the characters   *)
(* of user-supplied strings are single-character tokens; fixed template    *)
(* fragments that contain neither are one token each.                      *)
(***************************************************************************)
EXTENDS Integers, Sequences, FiniteSets, TLC

\* ------------------------------------------------------------ bounds

\* Longest query text (in characters) the requests carry.
MaxLen == 2

\* ------------------------------------------------------- JS values

\* A JavaScript / JSON value.  Every value has the same record shape so that
\* any two values can be compared: t is the typeof-like tag, s the characters
\* of a string, b a boolean, n a number, kids the elements of an array
\* (k = "") or the own properties of an object, in insertion order.
Val(t, s, b, n, kids) == [t |-> t, s |-> s, b |-> b, n |-> n, kids |-> kids]

Undef == Val("undefined", <<>>, FALSE, 0, <<>>)

Null == Val("null", <<>>, FALSE, 0, <<>>)

Str(s) == Val("string", s, FALSE, 0, <<>>)

Bool(b) == Val("boolean", <<>>, b, 0, <<>>)

Num(n) == Val("number", <<>>, FALSE, n, <<>>)

Prop(k, v) == [k |-> k, v |-> v]

RECURSIVE Elems(_)
Elems(vs) == IF vs = <<>> THEN <<>> ELSE <<Prop("", Head(vs))>> \o Elems(Tail(vs))

Arr(vs) == Val("array", <<>>, FALSE, 0, Elems(vs))

Obj(props) == Val("object", <<>>, FALSE, 0, props)

\* typeof v === "string", Array.isArray(v), typeof v === "boolean"
IsString(v) == v.t = "string"

IsArray(v) == v.t = "array"

IsBoolean(v) == v.t = "boolean"

\* JavaScript ToBoolean: what `!v`, `v &&` and `v ||` test.
Truthy(v) ==
  CASE v.t = "undefined" -> FALSE
    [] v.t = "null" -> FALSE
    [] v.t = "boolean" -> v.b
    [] v.t = "number" -> v.n # 0
    [] v.t = "string" -> v.s # <<>>
    [] OTHER -> TRUE

\* obj[key] / obj.key on an object: the property's value, undefined when the
\* object has no such own property.
RECURSIVE Lookup(_, _)
Lookup(props, key) ==
  IF props = <<>> THEN Undef
  ELSE IF Head(props).k = key THEN Head(props).v
  ELSE Lookup(Tail(props), key)

Get(obj, key) == IF obj.t = "object" THEN Lookup(obj.kids, key) ELSE Undef

HasKey(obj, key) == \E i \in 1..Len(obj.kids) : obj.kids[i].k = key

\* obj[key] = v: overwrite in place when the property exists, append otherwise.
SetKey(obj, key, v) ==
  IF HasKey(obj, key)
  THEN Obj([i \in 1..Len(obj.kids) |->
              IF obj.kids[i].k = key THEN Prop(key, v) ELSE obj.kids[i]])
  ELSE Obj(obj.kids \o <<Prop(key, v)>>)

\* ----------------------------------------------------------- strings

Quote == "\""

Backslash == "\\"

Space == " "

Alphabet == {"a", Quote, Backslash, Space}

Whitespace == {Space}

\* Every string of at most n characters over the alphabet.
Strings(n) == UNION {[1..k -> Alphabet] : k \in 0..n}

\* String.prototype.trim
RECURSIVE TrimLeft(_)
TrimLeft(s) ==
  IF s # <<>> /\ Head(s) \in Whitespace THEN TrimLeft(Tail(s)) ELSE s

RECURSIVE TrimRight(_)
TrimRight(s) ==
  IF s # <<>> /\ s[Len(s)] \in Whitespace
  THEN TrimRight(SubSeq(s, 1, Len(s) - 1))
  ELSE s

Trim(s) == TrimRight(TrimLeft(s))

\* Array.prototype.join over texts.
RECURSIVE Join(_, _)
Join(texts, sep) ==
  IF texts = <<>> THEN <<>>
  ELSE IF Len(texts) = 1 THEN texts[1]
  ELSE texts[1] \o sep \o Join(Tail(texts), sep)

\* ------------------------------------ convertNaturalLanguageToArtsyParams

ToolName == "searchArtsyArtworks"

\* What the model call (chat.sendMessage, then response.functionCalls())
\* yields: it throws, or functionCalls() is undefined (hasCalls = FALSE), or
\* it is an array of calls, each a tool name with its arguments.
Outcome(throws, hasCalls, calls) ==
  [throws |-> throws, hasCalls |-> hasCalls, calls |-> calls]

Call(name, args) == [name |-> name, args |-> args]

NoOutcome == Outcome(FALSE, FALSE, <<>>)

\* The fallback FilterSpec { keyword: query }.
KeywordOnly(query) == Obj(<<Prop("keyword", Str(query))>>)

\* A mutant of IsExpectedCall: the tool name is not compared.
IsExpectedCall_AnyName(o) == o.hasCalls /\ Len(o.calls) > 0

\* functionCalls && functionCalls.length > 0 &&
\* functionCalls[0].name === "searchArtsyArtworks"
IsExpectedCall(o) ==
  o.hasCalls /\ Len(o.calls) > 0 /\ o.calls[1].name = ToolName

\* A mutant of KeepArg: a string is compared with "" without trimming it.
KeepArg_NoTrim(value) ==
  /\ value # Undef
  /\ value # Null
  /\ ~(IsArray(value) /\ Len(value.kids) = 0)
  /\ ~(IsString(value) /\ value.s = <<>>)

\* A mutant of KeepArg: the boolean false is dropped as well.
KeepArg_DropsFalse(value) ==
  /\ value # Undef
  /\ value # Null
  /\ value # Bool(FALSE)
  /\ ~(IsArray(value) /\ Len(value.kids) = 0)
  /\ ~(IsString(value) /\ Trim(value.s) = <<>>)

\* The test of the cleaning loop: the field is copied to cleanedArgs.
KeepArg(value) ==
  /\ value # Undef
  /\ value # Null
  /\ ~(IsArray(value) /\ Len(value.kids) = 0)
  /\ ~(IsString(value) /\ Trim(value.s) = <<>>)

\* for (const key in args) ... cleanedArgs[key] = value
CleanArgs(args) == Obj(SelectSeq(args.kids, LAMBDA p : KeepArg(p.v)))

\* "cleanedArgs is empty or only contains empty/nullish values"
EffectivelyEmpty(cleaned) ==
  \/ Len(cleaned.kids) = 0
  \/ ~ \E i \in 1..Len(cleaned.kids) :
         LET v == cleaned.kids[i].v
         IN  /\ v # Undef
             /\ v # Null
             /\ v # Str(<<>>)
             /\ (~IsArray(v) \/ Len(v.kids) > 0)

\* A mutant of MissingPrimary: forSale counts as a primary field too.
MissingPrimary_ForSale(cleaned) ==
  /\ ~Truthy(Get(cleaned, "keyword"))
  /\ ~Truthy(Get(cleaned, "artistIDs"))
  /\ ~Truthy(Get(cleaned, "medium"))
  /\ ~Truthy(Get(cleaned, "color"))
  /\ Get(cleaned, "forSale") = Undef

\* None of the primary fields is present with a truthy value.
MissingPrimary(cleaned) ==
  /\ ~Truthy(Get(cleaned, "keyword"))
  /\ ~Truthy(Get(cleaned, "artistIDs"))
  /\ ~Truthy(Get(cleaned, "medium"))
  /\ ~Truthy(Get(cleaned, "color"))

\* A mutant of SanitizeArgs: the cleaned arguments are returned as they are.
SanitizeArgs_NoFallback(args, query) == CleanArgs(args)

\* The body of the `if` that accepts the tool call: cleaning, the fallback
\* to the full query, the keyword injection.
SanitizeArgs(args, query) ==
  LET cleanedArgs == CleanArgs(args)
  IN  IF EffectivelyEmpty(cleanedArgs) THEN KeywordOnly(query)
      ELSE IF MissingPrimary(cleanedArgs)
           THEN SetKey(cleanedArgs, "keyword", Str(query))
           ELSE cleanedArgs

\* An Error: its message is a fixed prefix followed by a rendered detail.
Err(prefix, detail) == [prefix |-> prefix, detail |-> detail]

NoErr == Err("", Undef)

\* How a function ends: it returns a value or throws an Error.
Return(v) == [threw |-> FALSE, value |-> v, error |-> NoErr]

Throw(e) == [threw |-> TRUE, value |-> Undef, error |-> e]

\* The error a failing model call raises inside the try block.
ModelError == Err("[GoogleGenerativeAI Error]", Undef)

\* A mutant of ExtractParams: an error of the model call is not caught.
ExtractParams_Rethrow(query, o) ==
  IF o.throws THEN Throw(ModelError)
  ELSE IF IsExpectedCall(o)
       THEN Return(SanitizeArgs(o.calls[1].args, query))
       ELSE Return(KeywordOnly(query))

\* The try/catch of convertNaturalLanguageToArtsyParams, from the outcome of
\* the model call to the way the function ends: the catch returns the
\* fallback, so the function always returns.
ExtractParams(query, o) ==
  IF o.throws THEN Return(KeywordOnly(query))
  ELSE IF IsExpectedCall(o)
       THEN Return(SanitizeArgs(o.calls[1].args, query))
       ELSE Return(KeywordOnly(query))

\* ------------------------------------------------- queryArtsy: compile

PageSize == 18

\* value.replace(/"/g, '\\"'): a backslash is put before every double quote.
RECURSIVE EscapeQuotes(_)
EscapeQuotes(s) ==
  IF s = <<>> THEN <<>>
  ELSE (IF Head(s) = Quote THEN <<Backslash, Quote>> ELSE <<Head(s)>>)
       \o EscapeQuotes(Tail(s))

\* `"${value.replace(/"/g, '\\"')}"`
QuoteString(s) == <<Quote>> \o EscapeQuotes(s) \o <<Quote>>

\* String(v), as a template literal and Array.prototype.join render a value
\* (join renders null and undefined as the empty string: asElement).
RECURSIVE JSString(_, _)
JSString(v, asElement) ==
  CASE v.t = "string" -> v.s
    [] v.t = "boolean" -> IF v.b THEN <<"true">> ELSE <<"false">>
    [] v.t = "number" -> <<ToString(v.n)>>
    [] v.t = "null" -> IF asElement THEN <<>> ELSE <<"null">>
    [] v.t = "undefined" -> IF asElement THEN <<>> ELSE <<"undefined">>
    [] v.t = "array" ->
         Join([i \in 1..Len(v.kids) |-> JSString(v.kids[i].v, TRUE)], <<",">>)
    [] OTHER -> <<"[object Object]">>

\* The elements of an array value, each rendered: strings quoted and
\* escaped, anything else as join renders it.
ArrayElementText(v) ==
  IF IsString(v) THEN QuoteString(v.s) ELSE JSString(v, TRUE)

\* The test that makes the map callback return null for an entry.
SkipParam(value) ==
  \/ value = Null
  \/ value = Undef
  \/ (IsArray(value) /\ Len(value.kids) = 0)
  \/ (IsString(value) /\ Trim(value.s) = <<>>)

\* graphQLValue of one entry that is not skipped.
GraphQLValue(value) ==
  IF IsString(value) THEN QuoteString(value.s)
  ELSE IF IsBoolean(value) THEN JSString(value, FALSE)
  ELSE IF IsArray(value)
       THEN <<"[">>
            \o Join([i \in 1..Len(value.kids) |->
                       ArrayElementText(value.kids[i].v)], <<", ">>)
            \o <<"]">>
  ELSE JSString(value, FALSE)

\* `${graphQLKey}: ${graphQLValue}`
FilterArg(p) == <<p.k, ": ">> \o GraphQLValue(p.v)

\* Object.entries(params).map(...).filter(Boolean): the texts of the
\* entries that are not skipped, in order.
FilterArgTexts(params) ==
  LET kept == SelectSeq(params.kids, LAMBDA p : ~SkipParam(p.v))
  IN  [i \in 1..Len(kept) |-> FilterArg(kept[i])]

\* .join(", ")
FilterArgs(params) == Join(FilterArgTexts(params), <<", ">>)

\* A mutant of QueryDefinition: $after is declared in every query.
QueryDefinition_AlwaysAfter(after) ==
  <<"query SearchArtworks($size: Int", ", $after: String", ")">>

\* query SearchArtworks($size: Int[, $after: String])
QueryDefinition(after) ==
  <<"query SearchArtworks($size: Int">>
  \o (IF Truthy(after) THEN <<", $after: String">> ELSE <<>>)
  \o <<")">>

\* first: $size, <filterArgs>[, after: $after]
ConnectionArgs(params, after) ==
  <<"first: $size, ">> \o FilterArgs(params)
  \o (IF Truthy(after) THEN <<", after: $after">> ELSE <<>>)

\* The query text of graphqlQuery.
QueryText(params, after) ==
  QueryDefinition(after)
  \o <<" { artworksConnection(">> \o ConnectionArgs(params, after)
  \o <<") { edges { node { internalID title slug date medium ",
       "artists { name slug } image { url(version: ",
       Quote, "large", Quote,
       ") aspectRatio } } } pageInfo { hasNextPage endCursor } } }">>

\* variables: { size: 18, ...(after && { after: after }) }
Variables(after) ==
  Obj(<<Prop("size", Num(PageSize))>>
      \o (IF Truthy(after) THEN <<Prop("after", after)>> ELSE <<>>))

\* graphqlQuery, with the pieces of the text kept apart for inspection.
GraphQLQuery(params, after) ==
  [definition |-> QueryDefinition(after),
   connectionArgs |-> ConnectionArgs(params, after),
   filterArgs |-> FilterArgs(params),
   query |-> QueryText(params, after),
   variables |-> Variables(after)]

NoQuery ==
  [definition |-> <<>>, connectionArgs |-> <<>>, filterArgs |-> <<>>,
   query |-> <<>>, variables |-> Undef]

\* ----------------------------------------- queryArtsy: read the response

\* What the catalog answers: the transport status, and the body, which
\* either parses as JSON (json, body) or does not.  A response with a success
\* status carries a JSON object.
Response(ok, status, statusText, json, body) ==
  [ok |-> ok, status |-> status, statusText |-> statusText,
   json |-> json, body |-> body]

NoResponse == Response(FALSE, 0, "", FALSE, Undef)

\* Failed to fetch from Artsy: <status> <statusText>
TransportError(resp) ==
  Err("Failed to fetch from Artsy: ",
      Str(<<ToString(resp.status), " ", resp.statusText>>))

\* GraphQL errors: <JSON.stringify(errors)>
GraphQLErrors(errors) == Err("GraphQL errors: ", errors)

\* A mutant of TransportFailure: the error thrown for the body's errors is
\* not swallowed by the catch around JSON.parse.
TransportFailure_InnerEscapes(resp) ==
  IF resp.json /\ Truthy(Get(resp.body, "errors"))
  THEN Throw(GraphQLErrors(Get(resp.body, "errors")))
  ELSE Throw(TransportError(resp))

\* if (!response.ok): the body is read and parsed for the log; whatever the
\* try block throws (JSON.parse failing, the Error made from errorJson.errors)
\* is caught by its own catch, and the transport error is thrown after it.
TransportFailure(resp) == Throw(TransportError(resp))

PageInfo(hasNextPage, endCursor) ==
  Obj(<<Prop("hasNextPage", hasNextPage), Prop("endCursor", endCursor)>>)

Connection(edges, pageInfo) ==
  Obj(<<Prop("edges", edges), Prop("pageInfo", pageInfo)>>)

\* { artworksConnection: { edges: [], pageInfo: { hasNextPage: false,
\*   endCursor: null } } }
EmptyResult ==
  Obj(<<Prop("artworksConnection",
             Connection(Arr(<<>>), PageInfo(Bool(FALSE), Null)))>>)

\* A mutant of ShapeResult: the shape is looked at before the errors.
ShapeResult_ShapeFirst(result) ==
  IF \/ ~Truthy(Get(result, "data"))
     \/ ~Truthy(Get(Get(result, "data"), "artworksConnection"))
  THEN Return(EmptyResult)
  ELSE IF Truthy(Get(result, "errors"))
       THEN Throw(GraphQLErrors(Get(result, "errors")))
       ELSE Return(Get(result, "data"))

\* A mutant of ShapeResult: a body without the expected structure is an error.
ShapeResult_MissingThrows(result) ==
  IF Truthy(Get(result, "errors"))
  THEN Throw(GraphQLErrors(Get(result, "errors")))
  ELSE IF \/ ~Truthy(Get(result, "data"))
          \/ ~Truthy(Get(Get(result, "data"), "artworksConnection"))
       THEN Throw(Err("Artsy response missing data.artworksConnection", Undef))
       ELSE Return(Get(result, "data"))

\* A mutant of ShapeResult: the decoded body is returned, not its data.
ShapeResult_ReturnsBody(result) ==
  IF Truthy(Get(result, "errors"))
  THEN Throw(GraphQLErrors(Get(result, "errors")))
  ELSE IF \/ ~Truthy(Get(result, "data"))
          \/ ~Truthy(Get(Get(result, "data"), "artworksConnection"))
       THEN Return(EmptyResult)
       ELSE Return(result)

\* After response.json(): the errors check, the check of the expected
\* structure, and the result.
ShapeResult(result) ==
  IF Truthy(Get(result, "errors"))
  THEN Throw(GraphQLErrors(Get(result, "errors")))
  ELSE IF \/ ~Truthy(Get(result, "data"))
          \/ ~Truthy(Get(Get(result, "data"), "artworksConnection"))
       THEN Return(EmptyResult)
       ELSE Return(Get(result, "data"))

\* queryArtsy from the response of fetch on.
ReadResponse(resp) ==
  IF ~resp.ok THEN TransportFailure(resp) ELSE ShapeResult(resp.body)

\* ------------------------------------------------------------- handler

\* What the handler sends: res.status(...).json(...), the JSON being either
\* the data or { error: message }.
Reply(status, data, error) == [status |-> status, data |-> data, error |-> error]

NoReply == Reply(0, Undef, NoErr)

\* return res.status(400).json({ error: ... }) and the 405 before it
MethodNotAllowed == Reply(405, Undef, Err("Method Not Allowed", Undef))

InvalidQuery == Reply(400, Undef, Err("Invalid or empty query provided", Undef))

InvalidAfter == Reply(400, Undef, Err("Invalid 'after' cursor provided", Undef))

\* The catch of the handler: status 500 with
\* error.message || "An internal server error occurred".
InternalError(e) ==
  Reply(500, Undef,
        IF e.prefix = "" /\ ~Truthy(e.detail)
        THEN Err("An internal server error occurred", Undef)
        ELSE e)

\* return res.status(200).json(artsyData)
Success(data) == Reply(200, data, NoErr)

\* !query || typeof query !== "string" || query.trim() === ""
QueryRejected(query) ==
  \/ ~Truthy(query)
  \/ ~IsString(query)
  \/ Trim(query.s) = <<>>

\* after && typeof after !== "string"
AfterRejected(after) == Truthy(after) /\ ~IsString(after)

\* after || null
AfterOrNull(after) == IF Truthy(after) THEN after ELSE Null

\* if (!apiKey) throw new Error("API key is not defined")
ApiKeyMissing(e) == ~e.GOOGLE_API_KEY

\* if (!token || !artsyApiUrl) throw ...
ArtsyConfigMissing(e) == ~e.ARTSY_ACCESS_TOKEN \/ ~e.ARTSY_API_URL

\* -------------------------------------------------------------- inputs

\* A cursor the catalog issued earlier.
Cursor == Str(<<"abc123">>)

\* req.body.query: every string of the bound, and values that are no string.
QueryValues ==
  {Str(s) : s \in Strings(MaxLen)}
    \cup {Undef, Null, Num(0), Num(5), Bool(TRUE), Arr(<<Str(<<"a">>)>>)}

\* req.body.after: absent, strings, and values that are no string.
AfterValues ==
  {Undef, Null, Str(<<>>), Cursor, Num(0), Num(7), Bool(FALSE), Bool(TRUE),
   Arr(<<>>)}

\* The requests: every query with and without a cursor, and every value of
\* after with a few queries.
Requests ==
  ({"POST"} \X QueryValues \X {Undef, Cursor})
    \cup ({"POST"} \X {Undef, Str(<<"a">>), Str(<<Quote>>)} \X AfterValues)
    \cup {<<"GET", Str(<<"a">>), Undef>>}

\* process.env: which of the variables are set.
Env(key, token, user, url) ==
  [GOOGLE_API_KEY |-> key, ARTSY_ACCESS_TOKEN |-> token,
   ARTSY_USER_ID |-> user, ARTSY_API_URL |-> url]

Envs ==
  {Env(TRUE, TRUE, TRUE, TRUE), Env(FALSE, TRUE, TRUE, TRUE),
   Env(TRUE, FALSE, TRUE, TRUE), Env(TRUE, TRUE, FALSE, TRUE),
   Env(TRUE, TRUE, TRUE, FALSE)}

\* Values the model puts in the arguments of a call.
ArgValues ==
  {Null, Str(<<>>), Str(<<Space>>), Str(<<"a">>), Str(<<"a", Quote>>),
   Arr(<<>>), Arr(<<Str(<<"a">>)>>), Arr(<<Str(<<Quote>>), Str(<<>>)>>),
   Bool(TRUE), Bool(FALSE), Num(0), Num(5)}

ArgKeys == {"keyword", "artistIDs", "forSale", "foo"}

\* The arguments of Scenario A of the specification.
ScenarioA ==
  Obj(<<Prop("artistIDs", Arr(<<Str(<<"pablo-picasso">>)>>)),
        Prop("medium", Str(<<"painting">>)),
        Prop("color", Str(<<"red">>))>>)

\* The argument objects of a call: none, empty, one field, some of several.
ArgsSet ==
  {Null, Obj(<<>>), ScenarioA}
    \cup {Obj(<<Prop(k, v)>>) : k \in ArgKeys, v \in ArgValues}
    \cup {Obj(<<Prop("keyword", v), Prop("forSale", w)>>) :
            v \in {Null, Str(<<>>), Num(0), Str(<<"a">>)},
            w \in {Null, Bool(TRUE), Bool(FALSE)}}
    \cup {Obj(<<Prop("partnerIDs", Arr(<<Str(<<"gallery">>)>>)),
                Prop("priceRange", Str(<<"*-10000">>))>>),
          Obj(<<Prop("keyword", Null), Prop("artistIDs", Arr(<<>>)),
                Prop("medium", Str(<<Space>>))>>),
          Obj(<<Prop("foo", Str(<<"x">>)), Prop("color", Str(<<"red">>))>>)}

\* The outcomes of the model call.
Outcomes ==
  {Outcome(TRUE, FALSE, <<>>), Outcome(FALSE, FALSE, <<>>),
   Outcome(FALSE, TRUE, <<>>)}
    \cup {Outcome(FALSE, TRUE, <<Call("otherTool", a)>>) :
            a \in {Obj(<<>>), ScenarioA}}
    \cup {Outcome(FALSE, TRUE, <<Call(ToolName, a)>>) : a \in ArgsSet}

SomeErrors == Arr(<<Obj(<<Prop("message", Str(<<"boom">>))>>)>>)

Edge == Obj(<<Prop("node", Obj(<<Prop("internalID", Str(<<"id1">>))>>))>>)

\* data.artworksConnection of a response: well formed, no edges, no
\* pageInfo, a pageInfo without endCursor.
Connections ==
  {Connection(Arr(<<Edge>>), PageInfo(Bool(TRUE), Cursor)),
   Connection(Arr(<<>>), PageInfo(Bool(FALSE), Null)),
   Obj(<<Prop("edges", Arr(<<>>))>>),
   Connection(Arr(<<Edge>>), Obj(<<Prop("hasNextPage", Bool(FALSE))>>))}

\* data of a response: absent, null, without artworksConnection, with it.
DataValues ==
  {Undef, Null, Obj(<<>>), Obj(<<Prop("artworksConnection", Null)>>)}
    \cup {Obj(<<Prop("artworksConnection", c)>>) : c \in Connections}

Body(errors, data) ==
  Obj((IF errors = Undef THEN <<>> ELSE <<Prop("errors", errors)>>)
      \o (IF data = Undef THEN <<>> ELSE <<Prop("data", data)>>))

\* The responses of the catalog.
Responses ==
  {Response(TRUE, 200, "OK", TRUE, Body(Undef, d)) : d \in DataValues}
    \cup {Response(TRUE, 200, "OK", TRUE, Body(e, d)) :
            e \in {Null, Arr(<<>>), SomeErrors},
            d \in {Undef, Obj(<<Prop("artworksConnection",
                     Connection(Arr(<<Edge>>), PageInfo(Bool(TRUE), Cursor)))>>)}}
    \cup {Response(FALSE, 500, "Internal Server Error", TRUE, b) :
            b \in {Body(SomeErrors, Undef), Body(Undef, Undef), Null}}
    \cup {Response(FALSE, 500, "Internal Server Error", FALSE, Undef),
          Response(FALSE, 404, "Not Found", FALSE, Undef)}

\* --------------------------------------------------------------- state

VARIABLES
  env,           \* process.env, fixed for the life of the process
  pc,            \* where the handler is: idle, awaitModel, awaitCatalog, done
  req,           \* the request: <<method, body.query, body.after>>
  outcome,       \* what the model call yielded
  artsyParams,   \* the FilterSpec convertNaturalLanguageToArtsyParams returned
  graphqlQuery,  \* the query document queryArtsy compiled
  upstream,      \* the response of the catalog
  res,           \* the reply sent to the caller
  modelCalls,    \* model calls issued for this request
  catalogCalls,  \* catalog calls issued for this request
  frames,        \* the invocations of the handler that run concurrently
  page,          \* the state hooks and the ref of the search page (Home)
  inflight,      \* the requests the page has sent and not yet seen answered
  timers         \* the interval timers that are set

vars ==
  <<env, pc, req, outcome, artsyParams, graphqlQuery, upstream, res,
    modelCalls, catalogCalls, frames, page, inflight, timers>>

\* The variables of the search page.
pageVars == <<page, inflight, timers>>

NoRequest == <<"", Undef, Undef>>

\* The invocations of the handler in flight at once.
Handlers == {1, 2}

\* The locals of one invocation of the handler.
IdleFrame ==
  [pc |-> "idle", req |-> NoRequest, outcome |-> NoOutcome,
   artsyParams |-> Undef, graphqlQuery |-> NoQuery, upstream |-> NoResponse,
   res |-> NoReply]

\* Home at its first render: the initial values of useState and useRef.
InitialPage ==
  [query |-> <<>>, results |-> <<>>, isLoading |-> FALSE,
   isLoadingMore |-> FALSE, error |-> Null, isFirstSearch |-> TRUE,
   isOnCooldown |-> FALSE, cooldownTime |-> 0, cooldownIntervalRef |-> 0,
   hasNextPage |-> FALSE, endCursor |-> Null]

Init ==
  /\ env \in Envs
  /\ pc = "idle"
  /\ req = NoRequest
  /\ outcome = NoOutcome
  /\ artsyParams = Undef
  /\ graphqlQuery = NoQuery
  /\ upstream = NoResponse
  /\ res = NoReply
  /\ modelCalls = 0
  /\ catalogCalls = 0
  /\ frames = [i \in Handlers |-> IdleFrame]
  /\ page = InitialPage
  /\ inflight = <<>>
  /\ timers = {}

\* The handler up to its first await: the method check, the validation of
\* the body, and convertNaturalLanguageToArtsyParams up to sendMessage.
HandlerStart ==
  /\ pc = "idle"
  /\ \E r \in Requests :
       /\ req' = r
       /\ IF r[1] # "POST"
          THEN /\ res' = MethodNotAllowed
               /\ pc' = "done"
               /\ modelCalls' = modelCalls
          ELSE IF QueryRejected(r[2])
          THEN /\ res' = InvalidQuery
               /\ pc' = "done"
               /\ modelCalls' = modelCalls
          ELSE IF AfterRejected(r[3])
          THEN /\ res' = InvalidAfter
               /\ pc' = "done"
               /\ modelCalls' = modelCalls
          ELSE IF ApiKeyMissing(env)
          THEN /\ res' = InternalError(Err("API key is not defined", Undef))
               /\ pc' = "done"
               /\ modelCalls' = modelCalls
          ELSE /\ res' = res
               /\ pc' = "awaitModel"
               /\ modelCalls' = modelCalls + 1
  /\ UNCHANGED <<env, outcome, artsyParams, graphqlQuery, upstream,
                 catalogCalls, frames, pageVars>>

\* The model call settles: the rest of convertNaturalLanguageToArtsyParams,
\* then queryArtsy up to fetch.
ModelReturns ==
  /\ pc = "awaitModel"
  /\ \E o \in Outcomes :
       LET c == ExtractParams(req[2].s, o)
       IN  /\ outcome' = o
           /\ IF c.threw
              THEN /\ res' = InternalError(c.error)
                   /\ pc' = "done"
                   /\ UNCHANGED <<artsyParams, graphqlQuery, catalogCalls>>
              ELSE /\ artsyParams' = c.value
                   /\ IF ArtsyConfigMissing(env)
                      THEN /\ res' = InternalError(
                                Err("Artsy API token or URL is not defined",
                                    Undef))
                           /\ pc' = "done"
                           /\ UNCHANGED <<graphqlQuery, catalogCalls>>
                      ELSE /\ graphqlQuery' =
                                GraphQLQuery(c.value, AfterOrNull(req[3]))
                           /\ catalogCalls' = catalogCalls + 1
                           /\ pc' = "awaitCatalog"
                           /\ res' = res
  /\ UNCHANGED <<env, req, upstream, modelCalls, frames, pageVars>>

\* A mutant of CatalogReturns: a failed catalog call is issued again.
CatalogReturns_Retry ==
  /\ pc = "awaitCatalog"
  /\ \E resp \in Responses :
       LET c == ReadResponse(resp)
       IN  /\ upstream' = resp
           /\ IF c.threw
              THEN /\ res' = res
                   /\ pc' = "awaitCatalog"
                   /\ catalogCalls' = catalogCalls + 1
              ELSE /\ res' = Success(c.value)
                   /\ pc' = "done"
                   /\ catalogCalls' = catalogCalls
  /\ UNCHANGED <<env, req, outcome, artsyParams, graphqlQuery, modelCalls,
                 frames, pageVars>>

\* fetch settles with a response: the rest of queryArtsy, and the reply.
CatalogReturns ==
  /\ pc = "awaitCatalog"
  /\ \E resp \in Responses :
       LET c == ReadResponse(resp)
       IN  /\ upstream' = resp
           /\ res' = IF c.threw THEN InternalError(c.error)
                     ELSE Success(c.value)
  /\ pc' = "done"
  /\ UNCHANGED <<env, req, outcome, artsyParams, graphqlQuery, modelCalls,
                 catalogCalls, frames, pageVars>>

\* The handler has returned: nothing of the request is kept, and the next
\* request starts from the same process state.
HandlerReturn ==
  /\ pc = "done"
  /\ pc' = "idle"
  /\ req' = NoRequest
  /\ outcome' = NoOutcome
  /\ artsyParams' = Undef
  /\ graphqlQuery' = NoQuery
  /\ upstream' = NoResponse
  /\ res' = NoReply
  /\ modelCalls' = 0
  /\ catalogCalls' = 0
  /\ UNCHANGED <<env, frames, pageVars>>

Next == HandlerStart \/ ModelReturns \/ CatalogReturns \/ HandlerReturn

Spec == Init /\ [][Next]_vars

\* ---------------------------------------------- concurrent invocations

\* The handler up to its first await, on the locals of one invocation.
Started(e, r) ==
  LET f == [IdleFrame EXCEPT !.req = r]
  IN  IF r[1] # "POST"
      THEN [f EXCEPT !.pc = "done", !.res = MethodNotAllowed]
      ELSE IF QueryRejected(r[2])
      THEN [f EXCEPT !.pc = "done", !.res = InvalidQuery]
      ELSE IF AfterRejected(r[3])
      THEN [f EXCEPT !.pc = "done", !.res = InvalidAfter]
      ELSE IF ApiKeyMissing(e)
      THEN [f EXCEPT !.pc = "done",
                     !.res = InternalError(
                               Err("API key is not defined", Undef))]
      ELSE [f EXCEPT !.pc = "awaitModel"]

\* From the model call's settling to fetch, on the locals of one invocation.
AfterModel(e, f, o) ==
  LET c == ExtractParams(f.req[2].s, o)
      g == [f EXCEPT !.outcome = o]
  IN  IF c.threw
      THEN [g EXCEPT !.pc = "done", !.res = InternalError(c.error)]
      ELSE IF ArtsyConfigMissing(e)
      THEN [g EXCEPT !.artsyParams = c.value,
                     !.pc = "done",
                     !.res = InternalError(
                               Err("Artsy API token or URL is not defined",
                                   Undef))]
      ELSE [g EXCEPT !.artsyParams = c.value,
                     !.graphqlQuery =
                        GraphQLQuery(c.value, AfterOrNull(f.req[3])),
                     !.pc = "awaitCatalog"]

\* From fetch's settling to the reply, on the locals of one invocation.
AfterCatalog(f, resp) ==
  LET c == ReadResponse(resp)
  IN  [f EXCEPT !.upstream = resp,
                !.pc = "done",
                !.res = IF c.threw THEN InternalError(c.error)
                        ELSE Success(c.value)]

\* Requests, model outcomes and catalog responses of concurrent invocations.
ConcRequests ==
  {<<"GET", Str(<<"a">>), Undef>>,
   <<"POST", Undef, Undef>>,
   <<"POST", Str(<<"a">>), Undef>>,
   <<"POST", Str(<<"a">>), Cursor>>,
   <<"POST", Str(<<Quote>>), Cursor>>}

ConcOutcomes ==
  {Outcome(TRUE, FALSE, <<>>),
   Outcome(FALSE, TRUE, <<Call("otherTool", ScenarioA)>>),
   Outcome(FALSE, TRUE, <<Call(ToolName, ScenarioA)>>),
   Outcome(FALSE, TRUE,
           <<Call(ToolName, Obj(<<Prop("forSale", Bool(TRUE))>>))>>)}

ConcResponses ==
  {Response(TRUE, 200, "OK", TRUE,
            Body(Undef, Obj(<<Prop("artworksConnection",
              Connection(Arr(<<Edge>>), PageInfo(Bool(TRUE), Cursor)))>>))),
   Response(TRUE, 200, "OK", TRUE, Body(Undef, Undef)),
   Response(TRUE, 200, "OK", TRUE, Body(SomeErrors, Undef)),
   Response(FALSE, 500, "Internal Server Error", FALSE, Undef)}

\* The variables of the one-invocation machine.
single ==
  <<pc, req, outcome, artsyParams, graphqlQuery, upstream, res, modelCalls,
    catalogCalls>>

\* Invocation i is called with a request.
ConcStart(i) ==
  /\ frames[i].pc = "idle"
  /\ \E r \in ConcRequests :
       frames' = [frames EXCEPT ![i] = Started(env, r)]
  /\ UNCHANGED <<env, single, pageVars>>

\* A mutant of ConcModelReturns: the extracted parameters are kept in one
\* place of the module, which every invocation suspended at fetch shares.
ConcModelReturns_SharedParams(i) ==
  /\ frames[i].pc = "awaitModel"
  /\ \E o \in ConcOutcomes :
       LET f == AfterModel(env, frames[i], o)
       IN  frames' =
             [j \in Handlers |->
                IF j = i THEN f
                ELSE IF frames[j].pc = "awaitCatalog"
                     THEN [frames[j] EXCEPT !.artsyParams = f.artsyParams]
                     ELSE frames[j]]
  /\ UNCHANGED <<env, single, pageVars>>

\* The model call of invocation i settles.
ConcModelReturns(i) ==
  /\ frames[i].pc = "awaitModel"
  /\ \E o \in ConcOutcomes :
       frames' = [frames EXCEPT ![i] = AfterModel(env, frames[i], o)]
  /\ UNCHANGED <<env, single, pageVars>>

\* The catalog call of invocation i settles.
ConcCatalogReturns(i) ==
  /\ frames[i].pc = "awaitCatalog"
  /\ \E resp \in ConcResponses :
       frames' = [frames EXCEPT ![i] = AfterCatalog(frames[i], resp)]
  /\ UNCHANGED <<env, single, pageVars>>

\* Invocation i has returned: its locals are gone.
ConcReturn(i) ==
  /\ frames[i].pc = "done"
  /\ frames' = [frames EXCEPT ![i] = IdleFrame]
  /\ UNCHANGED <<env, single, pageVars>>

ConcNext ==
  \E i \in Handlers :
    \/ ConcStart(i)
    \/ ConcModelReturns(i)
    \/ ConcCatalogReturns(i)
    \/ ConcReturn(i)

SpecConc == Init /\ [][ConcNext]_vars

\* ------------------------------------------------------ the search page

MaxResults == 2

CooldownSeconds == 5

\* The texts the user types in the input.
PageQueries == {<<>>, <<Space>>, <<"a">>, <<"b">>}

\* An opaque token the API returns as endCursor to a request with query q.
CursorFor(q) == Str(<<"cursor">> \o q)

\* An edge the API returns to the request with this query and cursor.
PageEdge(q, after) == [q |-> q, after |-> after]

\* The body of a request of the page: JSON.stringify({ query [, after] }).
PageRequest(kind, q, after) == [kind |-> kind, query |-> q, after |-> after]

\* What fetch and response.json() yield: response.ok, data.error,
\* data.artworksConnection?.edges and data.artworksConnection.pageInfo.
ApiReply(ok, hasError, hasEdges, edges, hasPageInfo, hasNextPage, endCursor) ==
  [ok |-> ok, hasError |-> hasError, hasEdges |-> hasEdges, edges |-> edges,
   hasPageInfo |-> hasPageInfo, hasNextPage |-> hasNextPage,
   endCursor |-> endCursor]

\* The answers to request r: an error, a connection with a next page, a last
\* page, an empty result, no edges, and edges without pageInfo.
ApiReplies(r) ==
  LET e == <<PageEdge(r.query, r.after)>>
  IN  {ApiReply(FALSE, TRUE, FALSE, <<>>, FALSE, FALSE, Null),
       ApiReply(TRUE, FALSE, TRUE, e, TRUE, TRUE, CursorFor(r.query)),
       ApiReply(TRUE, FALSE, TRUE, e, TRUE, FALSE, Null),
       ApiReply(TRUE, FALSE, TRUE, <<>>, TRUE, FALSE, Null),
       ApiReply(TRUE, FALSE, FALSE, <<>>, FALSE, FALSE, Null),
       ApiReply(TRUE, FALSE, TRUE, e, FALSE, FALSE, Null)}

\* err.message shown by the page.
PageError == Str(<<"error">>)

\* A mutant of SubmitBlocked: the cooldown is not looked at.
SubmitBlocked_IgnoresCooldown(p) ==
  p.isLoading \/ Trim(p.query) = <<>>

\* handleSubmit: if (isLoading || isOnCooldown || !query.trim()) return;
SubmitBlocked(p) ==
  p.isLoading \/ p.isOnCooldown \/ Trim(p.query) = <<>>

\* handleSubmit up to fetch: the five setters.
Submitted(p) ==
  [p EXCEPT !.isLoading = TRUE, !.error = Null, !.results = <<>>,
            !.hasNextPage = FALSE, !.endCursor = Null]

\* The catch block of handleSubmit.
SubmitFailed(p) ==
  [p EXCEPT !.error = PageError, !.results = <<>>, !.hasNextPage = FALSE,
            !.endCursor = Null]

\* handleSubmit after response.json(): the try block with its catch.
SearchSettled(p, reply) ==
  IF ~reply.ok \/ reply.hasError THEN SubmitFailed(p)
  ELSE IF reply.hasEdges
  THEN IF reply.hasPageInfo
       THEN [p EXCEPT !.results = reply.edges,
                      !.hasNextPage = reply.hasNextPage,
                      !.endCursor = reply.endCursor]
       ELSE SubmitFailed([p EXCEPT !.results = reply.edges])
  ELSE [p EXCEPT !.results = <<>>, !.hasNextPage = FALSE, !.endCursor = Null]

\* The id setInterval returns: one that no set timer has.
NewTimer(ts) == CHOOSE n \in 1..(Cardinality(ts) + 1) : n \notin ts

\* startCooldown: the timers after clearInterval and setInterval.
TimersAfterCooldownStart(p, ts) ==
  LET cleared == ts \ {p.cooldownIntervalRef}
  IN  cleared \cup {NewTimer(cleared)}

\* startCooldown: the setters and the ref.
StartCooldown(p, ts) ==
  [p EXCEPT !.isOnCooldown = TRUE, !.cooldownTime = CooldownSeconds,
            !.cooldownIntervalRef = NewTimer(ts \ {p.cooldownIntervalRef})]

\* The finally block of handleSubmit, before startCooldown.
SubmitFinally(p) == [p EXCEPT !.isLoading = FALSE, !.isFirstSearch = FALSE]

\* A mutant of LoadMoreBlocked: the flag of a load-more in flight is not
\* looked at.
LoadMoreBlocked_IgnoresInFlight(p) ==
  ~p.hasNextPage \/ ~Truthy(p.endCursor) \/ p.query = <<>>

\* handleLoadMore:
\* if (isLoadingMore || !hasNextPage || !endCursor || !query) return;
LoadMoreBlocked(p) ==
  p.isLoadingMore \/ ~p.hasNextPage \/ ~Truthy(p.endCursor) \/ p.query = <<>>

\* The Show More button is rendered, and it is not disabled.
ShowMoreClickable(p) == p.hasNextPage /\ ~p.isLoading /\ ~p.isLoadingMore

\* The catch block of handleLoadMore.
LoadMoreFailed(p) == [p EXCEPT !.error = PageError, !.hasNextPage = FALSE]

\* handleLoadMore after response.json(): the try block with its catch.
MoreSettled(p, reply) ==
  IF ~reply.ok \/ reply.hasError THEN LoadMoreFailed(p)
  ELSE IF reply.hasEdges
  THEN LET q == [p EXCEPT !.results = p.results \o reply.edges]
       IN  IF reply.hasPageInfo
           THEN [q EXCEPT !.hasNextPage = reply.hasNextPage,
                          !.endCursor = reply.endCursor]
           ELSE LoadMoreFailed(q)
  ELSE [p EXCEPT !.hasNextPage = FALSE, !.endCursor = Null]

\* inflight without its i-th request.
Without(seq, i) == SubSeq(seq, 1, i - 1) \o SubSeq(seq, i + 1, Len(seq))

\* The variables of the API handler machines.
apiVars == <<env, single, frames>>

\* onChange of the input, which is disabled while a search is loading.
SetQuery ==
  /\ ~page.isLoading
  /\ \E q \in PageQueries \ {page.query} :
       page' = [page EXCEPT !.query = q]
  /\ UNCHANGED <<inflight, timers, apiVars>>

\* The form is submitted: handleSubmit up to its await.
HandleSubmit ==
  /\ ~SubmitBlocked(page)
  /\ page' = Submitted(page)
  /\ inflight' = Append(inflight, PageRequest("search", page.query, Undef))
  /\ UNCHANGED <<timers, apiVars>>

\* The search request is answered: the rest of handleSubmit.
SearchResponds ==
  /\ \E i \in 1..Len(inflight) :
       /\ inflight[i].kind = "search"
       /\ \E reply \in ApiReplies(inflight[i]) :
            LET p == SubmitFinally(SearchSettled(page, reply))
            IN  /\ page' = StartCooldown(p, timers)
                /\ timers' = TimersAfterCooldownStart(p, timers)
       /\ inflight' = Without(inflight, i)
  /\ UNCHANGED apiVars

\* Show More is clicked: handleLoadMore up to its await.
HandleLoadMore ==
  /\ ShowMoreClickable(page)
  /\ ~LoadMoreBlocked(page)
  /\ Len(page.results) < MaxResults
  /\ page' = [page EXCEPT !.isLoadingMore = TRUE, !.error = Null]
  /\ inflight' =
       Append(inflight, PageRequest("more", page.query, page.endCursor))
  /\ UNCHANGED <<timers, apiVars>>

\* The load-more request is answered: the rest of handleLoadMore.
MoreResponds ==
  /\ \E i \in 1..Len(inflight) :
       /\ inflight[i].kind = "more"
       /\ \E reply \in ApiReplies(inflight[i]) :
            page' = [MoreSettled(page, reply) EXCEPT !.isLoadingMore = FALSE]
       /\ inflight' = Without(inflight, i)
  /\ UNCHANGED <<timers, apiVars>>

\* A set interval timer fires: the updater given to setCooldownTime.
Tick ==
  /\ \E id \in timers :
       IF page.cooldownTime <= 1
       THEN /\ timers' = timers \ {page.cooldownIntervalRef}
            /\ page' = [page EXCEPT !.cooldownIntervalRef = 0,
                                    !.isOnCooldown = FALSE,
                                    !.cooldownTime = 0]
       ELSE /\ timers' = timers
            /\ page' = [page EXCEPT !.cooldownTime = page.cooldownTime - 1]
  /\ UNCHANGED <<inflight, apiVars>>

PageNext ==
  \/ SetQuery
  \/ HandleSubmit
  \/ SearchResponds
  \/ HandleLoadMore
  \/ MoreResponds
  \/ Tick

PageInit == Init /\ env = Env(TRUE, TRUE, TRUE, TRUE)

\* The page, with its timer firing whenever one is set.
SpecPage == PageInit /\ [][PageNext]_vars /\ WF_vars(Tick)

\* -------------------------------------------------------------- claims

\* The request passed the handler's checks and the model call has settled.
ModelSettled == modelCalls = 1 /\ pc \in {"awaitCatalog", "done"}

\* The catalog has answered.
CatalogSettled == catalogCalls = 1 /\ pc = "done"

\* The model returned no function call, a call of another tool, or threw.
ExtractionFailed(o) ==
  \/ o.throws
  \/ ~o.hasCalls
  \/ Len(o.calls) = 0
  \/ o.calls[1].name # ToolName

\* C1: whenever extraction fails (the model call throws, returns no function
\* call, or returns a call of another tool), the FilterSpec returned is
\* exactly { keyword: <the query text> }, with no other field.
C1_FallbackOnExtractionFailure ==
  (ModelSettled /\ ExtractionFailed(outcome)) =>
    /\ artsyParams.t = "object"
    /\ Len(artsyParams.kids) = 1
    /\ artsyParams.kids[1].k = "keyword"
    /\ artsyParams.kids[1].v = req[2]

\* A call of another tool carrying usable arguments, for a query with a quote.
C1_Witness ==
  /\ ModelSettled
  /\ outcome.hasCalls
  /\ Len(outcome.calls) > 0
  /\ outcome.calls[1].name # ToolName
  /\ Len(outcome.calls[1].args.kids) > 0
  /\ req[2] = Str(<<"a", Quote>>)
  /\ artsyParams = Obj(<<Prop("keyword", Str(<<"a", Quote>>))>>)

\* A value the query builder does not skip: a string that is not empty, a
\* sequence that is not empty, a boolean; a value of another type (a number,
\* an object) counts as a value, null and undefined do not.
NonEmptyValue(v) ==
  CASE v.t = "string" -> v.s # <<>>
    [] v.t = "array" -> Len(v.kids) > 0
    [] v.t = "undefined" -> FALSE
    [] v.t = "null" -> FALSE
    [] OTHER -> TRUE

\* C2: the FilterSpec passed to queryArtsy has at least one field with a
\* non-empty value, and the filter arguments compiled from it are not empty.
C2_FilterSpecNeverEmpty ==
  /\ ModelSettled =>
       /\ artsyParams.t = "object"
       /\ \E i \in 1..Len(artsyParams.kids) :
            NonEmptyValue(artsyParams.kids[i].v)
  /\ pc = "awaitCatalog" =>
       /\ graphqlQuery.filterArgs # <<>>
       /\ \E i \in 1..Len(artsyParams.kids) :
            /\ ~SkipParam(artsyParams.kids[i].v)
            /\ \E j \in 1..Len(graphqlQuery.filterArgs) :
                 graphqlQuery.filterArgs[j] = artsyParams.kids[i].k

\* The expected tool was called with arguments that are all empty, and the
\* query was compiled from the fallback.
C2_Witness ==
  /\ pc = "awaitCatalog"
  /\ IsExpectedCall(outcome)
  /\ Len(outcome.calls[1].args.kids) = 3
  /\ \A i \in 1..3 : ~NonEmptyValue(outcome.calls[1].args.kids[i].v)
                       \/ outcome.calls[1].args.kids[i].v = Str(<<Space>>)
  /\ graphqlQuery.filterArgs = <<"keyword", ": ", Quote, "a", Quote>>

\* The string literals of a GraphQL text, as the lexer reads them: a literal
\* runs from a quote to the next quote that no backslash escapes; inside it a
\* backslash escapes the quote or the backslash that follows, and any other
\* character after a backslash is no escape of this alphabet.  ok: the text
\* ends outside a literal and holds no bad escape; literals: their contents.
RECURSIVE LexLiterals(_, _, _, _)
LexLiterals(text, inString, current, acc) ==
  IF text = <<>> THEN [ok |-> ~inString, literals |-> acc]
  ELSE IF ~inString
       THEN LexLiterals(Tail(text), Head(text) = Quote, <<>>, acc)
  ELSE IF Head(text) = Quote
       THEN LexLiterals(Tail(text), FALSE, <<>>, Append(acc, current))
  ELSE IF Head(text) = Backslash
       THEN IF Len(text) >= 2 /\ text[2] \in {Quote, Backslash}
            THEN LexLiterals(Tail(Tail(text)), TRUE,
                             Append(current, text[2]), acc)
            ELSE [ok |-> FALSE, literals |-> acc]
  ELSE LexLiterals(Tail(text), TRUE, Append(current, Head(text)), acc)

\* The string elements of an array value, in order.
RECURSIVE ElementStrings(_)
ElementStrings(kids) ==
  IF kids = <<>> THEN <<>>
  ELSE (IF IsString(Head(kids).v) THEN <<Head(kids).v.s>> ELSE <<>>)
       \o ElementStrings(Tail(kids))

\* The string values a FilterSpec hands to the compiler, in order: the
\* top-level strings that are not skipped and the string elements of arrays.
RECURSIVE StringValues(_)
StringValues(props) ==
  IF props = <<>> THEN <<>>
  ELSE LET v == Head(props).v
       IN  (IF SkipParam(v) THEN <<>>
            ELSE IF IsString(v) THEN <<v.s>>
            ELSE IF IsArray(v) THEN ElementStrings(v.kids)
            ELSE <<>>)
           \o StringValues(Tail(props))

HasQuote(s) == \E i \in 1..Len(s) : s[i] = Quote

\* C3: when the string filter values (top-level or array elements) all hold
\* a double quote, the compiled filter arguments are well formed: the lexer
\* reads exactly one literal per string value, each ending at its intended
\* closing quote and holding the value.
C3_QuotedValuesWellFormed ==
  (/\ pc = "awaitCatalog"
   /\ \A i \in 1..Len(StringValues(artsyParams.kids)) :
        HasQuote(StringValues(artsyParams.kids)[i])
   /\ StringValues(artsyParams.kids) # <<>>) =>
    LET lexed == LexLiterals(graphqlQuery.filterArgs, FALSE, <<>>, <<>>)
    IN  /\ lexed.ok
        /\ lexed.literals = StringValues(artsyParams.kids)

\* res.data.artworksConnection.pageInfo
ReplyPageInfo == Get(Get(res.data, "artworksConnection"), "pageInfo")

\* C4: every successful result carries artworksConnection.pageInfo with
\* hasNextPage and endCursor both defined.
C4_PageInfoAlwaysPresent ==
  (CatalogSettled /\ res.status = 200) =>
    /\ ReplyPageInfo.t = "object"
    /\ Get(ReplyPageInfo, "hasNextPage") # Undef
    /\ Get(ReplyPageInfo, "endCursor") # Undef

Occurs(token, text) == \E i \in 1..Len(text) : text[i] = token

\* A cursor was supplied with the request: after is a string that is not empty.
CursorSupplied == IsString(req[3]) /\ req[3].s # <<>>

\* C5: the compiled document declares $after, passes after: $after and binds
\* after in the variables exactly when a cursor was supplied, the binding
\* being the cursor unchanged; size is declared, passed and bound always.
C5_CursorIffSupplied ==
  pc = "awaitCatalog" =>
    /\ Occurs(", $after: String", graphqlQuery.query) <=> CursorSupplied
    /\ Occurs(", after: $after", graphqlQuery.query) <=> CursorSupplied
    /\ HasKey(graphqlQuery.variables, "after") <=> CursorSupplied
    /\ CursorSupplied => Get(graphqlQuery.variables, "after") = req[3]
    /\ Occurs("query SearchArtworks($size: Int", graphqlQuery.query)
    /\ Occurs("first: $size, ", graphqlQuery.query)
    /\ Get(graphqlQuery.variables, "size") = Num(18)

\* A query compiled for a request that carries a cursor.
C5_Witness ==
  /\ pc = "awaitCatalog"
  /\ req[3] = Cursor
  /\ Get(graphqlQuery.variables, "after") = Cursor
  /\ Occurs(", $after: String", graphqlQuery.query)

\* C6: a request whose query is absent, not a string or blank, or whose after
\* is present and not a string, is answered with an error and neither the
\* model call nor the catalog call is issued for it.
C6_InvalidRequestsRejected ==
  (/\ req # NoRequest
   /\ req[1] = "POST"
   /\ \/ req[2] \in {Undef, Null}
      \/ ~IsString(req[2])
      \/ Trim(req[2].s) = <<>>
      \/ (req[3] \notin {Undef, Null} /\ ~IsString(req[3]))) =>
    /\ pc = "done"
    /\ res.status >= 400
    /\ modelCalls = 0
    /\ catalogCalls = 0

\* The request is one the handler accepts.
ValidRequest ==
  /\ req[1] = "POST"
  /\ IsString(req[2])
  /\ Trim(req[2].s) # <<>>
  /\ (req[3] \in {Undef, Null} \/ IsString(req[3]))

AllCredentials ==
  /\ env.GOOGLE_API_KEY
  /\ env.ARTSY_ACCESS_TOKEN
  /\ env.ARTSY_USER_ID
  /\ env.ARTSY_API_URL

UpstreamErrors == Get(upstream.body, "errors")

\* C7: with a valid request and the credentials present, a catalog response
\* with a success status and no errors collection is answered with status
\* 200 whatever the model call did; and a failure reply is a rejected
\* request, a missing credential, a non-success catalog status or an errors
\* collection, never a failed extraction.
C7_ExtractionFailureNotSurfaced ==
  /\ (CatalogSettled /\ ValidRequest /\ AllCredentials
      /\ upstream.ok /\ ~IsArray(UpstreamErrors)) => res.status = 200
  /\ (pc = "done" /\ res.status # 200) =>
       \/ res.status \in {400, 405} /\ ~ValidRequest /\ modelCalls = 0
       \/ /\ res.status = 500
          /\ \/ ApiKeyMissing(env) /\ modelCalls = 0
             \/ ArtsyConfigMissing(env) /\ catalogCalls = 0
             \/ CatalogSettled /\ ~upstream.ok
             \/ CatalogSettled /\ upstream.ok /\ IsArray(UpstreamErrors)

\* The model call threw and the request was answered with the catalog's data.
C7_Witness ==
  /\ CatalogSettled
  /\ outcome.throws
  /\ res.status = 200
  /\ Get(res.data, "artworksConnection") # Undef

\* C8: a non-success status of the catalog always ends as the transport
\* error, whatever the body, and the handler answers with status 500.
C8_TransportErrorAlways ==
  (CatalogSettled /\ ~upstream.ok) =>
    /\ res.status = 500
    /\ res.data = Undef
    /\ res.error.prefix = "Failed to fetch from Artsy: "
    /\ res.error.detail =
         Str(<<ToString(upstream.status), " ", upstream.statusText>>)

\* A non-success response whose body is JSON with an errors collection.
C8_Witness ==
  /\ CatalogSettled
  /\ ~upstream.ok
  /\ upstream.json
  /\ IsArray(UpstreamErrors)
  /\ res.status = 500

\* C9: a success status with an errors collection in the body ends as the
\* protocol error and status 500, whether or not the body also carries
\* data.artworksConnection: never the empty result, never the data.
C9_ProtocolErrorFirst ==
  (CatalogSettled /\ upstream.ok /\ IsArray(UpstreamErrors)) =>
    /\ res.status = 500
    /\ res.data = Undef
    /\ res.error.prefix = "GraphQL errors: "
    /\ res.error.detail = UpstreamErrors

\* An errors collection beside a well-formed data.artworksConnection.
C9_Witness ==
  /\ CatalogSettled
  /\ upstream.ok
  /\ UpstreamErrors = SomeErrors
  /\ Truthy(Get(Get(upstream.body, "data"), "artworksConnection"))
  /\ res.status = 500

\* The body has no data, or its data has no artworksConnection.
LacksConnection(body) ==
  \/ Get(body, "data") \in {Undef, Null}
  \/ Get(Get(body, "data"), "artworksConnection") \in {Undef, Null}

\* C10: a success status, no errors collection and a body without data or
\* data.artworksConnection is answered with status 200 and exactly the empty
\* result.
C10_EmptyResultOnMissingData ==
  (CatalogSettled /\ upstream.ok /\ ~IsArray(UpstreamErrors)
   /\ LacksConnection(upstream.body)) =>
    /\ res.status = 200
    /\ res.error = NoErr
    /\ res.data =
         Obj(<<Prop("artworksConnection",
                Obj(<<Prop("edges", Arr(<<>>)),
                      Prop("pageInfo",
                           Obj(<<Prop("hasNextPage", Bool(FALSE)),
                                 Prop("endCursor", Null)>>))>>))>>)

\* A body whose data is there without artworksConnection.
C10_Witness ==
  /\ CatalogSettled
  /\ upstream.ok
  /\ Get(upstream.body, "data") = Obj(<<>>)
  /\ res.status = 200
  /\ Get(Get(res.data, "artworksConnection"), "edges") = Arr(<<>>)

\* The arguments of the accepted tool call (null arguments have no field).
CallArgs == outcome.calls[1].args.kids

\* The model called the expected tool and the sanitizer has run.
Sanitized == ModelSettled /\ ~outcome.throws /\ IsExpectedCall(outcome)

\* A value is blank: a string of whitespace only (empty after trimming).
BlankString(v) ==
  v.t = "string" /\ \A i \in 1..Len(v.s) : v.s[i] \in Whitespace

\* A value the cleaning step is to drop: null, undefined, an empty sequence,
\* a blank string.
EmptyValue(v) ==
  \/ v.t \in {"null", "undefined"}
  \/ (v.t = "array" /\ v.kids = <<>>)
  \/ BlankString(v)

\* A value that is empty or falsy: an empty value, false, 0.
EmptyOrFalsy(v) ==
  \/ EmptyValue(v)
  \/ (v.t = "boolean" /\ ~v.b)
  \/ (v.t = "number" /\ v.n = 0)

\* The FilterSpec is exactly { keyword: <the query text> }.
IsKeywordFallback ==
  /\ artsyParams.t = "object"
  /\ Len(artsyParams.kids) = 1
  /\ artsyParams.kids[1].k = "keyword"
  /\ artsyParams.kids[1].v = req[2]

PrimaryFields == {"keyword", "artistIDs", "medium", "color"}

\* The fields of the extracted arguments that survive cleaning, in order.
Survivors == SelectSeq(CallArgs, LAMBDA p : ~EmptyValue(p.v))

PrimarySurvived == \E i \in 1..Len(Survivors) : Survivors[i].k \in PrimaryFields

\* C12: after cleaning, when no primary field survived but some field did,
\* the FilterSpec is the surviving fields unchanged plus keyword = the query
\* text; when a primary field survived, the FilterSpec is the surviving
\* fields unchanged, with no keyword injected.
C12_KeywordInjectedIffNoPrimary ==
  (Sanitized /\ Survivors # <<>>) =>
    IF PrimarySurvived
    THEN artsyParams.kids = Survivors
    ELSE artsyParams.kids = Survivors \o <<Prop("keyword", req[2])>>

\* C13: the FilterSpec returned holds at least one of keyword, artistIDs,
\* medium, color with a non-empty value, which the query builder compiles.
C13_PrimaryFieldPresent ==
  ModelSettled =>
    \E i \in 1..Len(artsyParams.kids) :
      /\ artsyParams.kids[i].k \in PrimaryFields
      /\ NonEmptyValue(artsyParams.kids[i].v)
      /\ ~BlankString(artsyParams.kids[i].v)

\* Only forSale was extracted, and the query text became the keyword.
C13_Witness ==
  /\ Sanitized
  /\ Len(CallArgs) = 1
  /\ CallArgs[1] = Prop("forSale", Bool(TRUE))
  /\ Get(artsyParams, "forSale") = Bool(TRUE)
  /\ Get(artsyParams, "keyword") = req[2]

\* C14: when a required credential is absent (the model API key, the catalog
\* access token or the catalog user id), a request the handler accepts ends
\* as an internal failure with no model call and no catalog call issued.
C14_NoCallWithoutCredentials ==
  (/\ req # NoRequest
   /\ ValidRequest
   /\ \/ ~env.GOOGLE_API_KEY
      \/ ~env.ARTSY_ACCESS_TOKEN
      \/ ~env.ARTSY_USER_ID) =>
    /\ pc = "done"
    /\ res.status = 500
    /\ modelCalls = 0
    /\ catalogCalls = 0

\* The catalog call failed: a non-success status or an errors collection.
CatalogFailed ==
  CatalogSettled /\ (~upstream.ok \/ IsArray(UpstreamErrors))

\* C15: a request issues at most one model call and at most one catalog
\* call, the catalog call only once the model call has settled; when the
\* catalog call fails the failure is the reply, with one call of each made.
C15_AtMostOneCallEach ==
  /\ modelCalls \in {0, 1}
  /\ catalogCalls \in {0, 1}
  /\ catalogCalls = 1 =>
       /\ modelCalls = 1
       /\ pc \in {"awaitCatalog", "done"}
       /\ artsyParams # Undef
  /\ pc = "awaitModel" => modelCalls = 1 /\ catalogCalls = 0
  /\ CatalogFailed =>
       /\ res.status = 500
       /\ modelCalls = 1
       /\ catalogCalls = 1

\* Scenario D: the catalog answered with status 500 and the reply is the
\* failure, after one model call and one catalog call.
C15_Witness ==
  /\ CatalogFailed
  /\ upstream.status = 500
  /\ res.status = 500
  /\ modelCalls = 1
  /\ catalogCalls = 1
  /\ IsExpectedCall(outcome)

\* C17: for string filter values over an alphabet with the quote and the
\* backslash, the compiled filter arguments are well formed: the lexer reads
\* exactly one literal per string value, in order, each holding the value,
\* and the text ends outside a literal.
C17_AllValuesWellFormed ==
  pc = "awaitCatalog" =>
    LET lexed == LexLiterals(graphqlQuery.filterArgs, FALSE, <<>>, <<>>)
    IN  /\ lexed.ok
        /\ lexed.literals = StringValues(artsyParams.kids)

RecognizedFields ==
  {"keyword", "artistIDs", "medium", "color", "partnerIDs", "forSale",
   "attributionClass", "priceRange"}

\* The argument names of a compiled filter-argument text: the tokens that
\* stand before a ": " token.
ArgumentNames(text) ==
  {text[i] : i \in {j \in 1..Len(text) - 1 : text[j + 1] = ": "}}

\* C19: every field name of the sanitizer's output is a recognized filter
\* name, and so is every argument name compiled into the query.
C19_OnlyRecognizedFields ==
  /\ ModelSettled =>
       \A i \in 1..Len(artsyParams.kids) :
         artsyParams.kids[i].k \in RecognizedFields
  /\ pc = "awaitCatalog" =>
       ArgumentNames(graphqlQuery.filterArgs) \subseteq RecognizedFields

UpstreamConnection == Get(Get(upstream.body, "data"), "artworksConnection")

\* C20: a success status, no errors collection and a body with
\* data.artworksConnection: the reply is status 200 and its
\* artworksConnection, edges and pageInfo are the decoded ones unchanged.
C20_ConnectionPassedThrough ==
  (CatalogSettled /\ upstream.ok /\ ~IsArray(UpstreamErrors)
   /\ ~LacksConnection(upstream.body)) =>
    /\ res.status = 200
    /\ Get(res.data, "artworksConnection") = UpstreamConnection
    /\ Get(Get(res.data, "artworksConnection"), "edges")
         = Get(UpstreamConnection, "edges")
    /\ ReplyPageInfo = Get(UpstreamConnection, "pageInfo")

\* A well-formed connection with one edge was passed through.
C20_Witness ==
  /\ CatalogSettled
  /\ upstream.ok
  /\ Get(UpstreamConnection, "edges") = Arr(<<Edge>>)
  /\ Get(Get(res.data, "artworksConnection"), "edges") = Arr(<<Edge>>)
  /\ ReplyPageInfo = PageInfo(Bool(TRUE), Cursor)

\* What the cleaning loop made of the arguments of the accepted call.
Cleaned == CleanArgs(outcome.calls[1].args)

\* C18: the cleaning step drops a field exactly when its value is null,
\* undefined, an empty sequence or a blank string; every other field is kept
\* with its value unchanged and in its place, no field is added, and the
\* kept fields other than keyword reach the returned FilterSpec unchanged.
C18_CleaningDropsExactlyEmpty ==
  Sanitized =>
    /\ \A i \in 1..Len(CallArgs) :
         /\ EmptyValue(CallArgs[i].v) <=> ~HasKey(Cleaned, CallArgs[i].k)
         /\ ~EmptyValue(CallArgs[i].v) =>
              Get(Cleaned, CallArgs[i].k) = CallArgs[i].v
    /\ \A j \in 1..Len(Cleaned.kids) :
         \E i \in 1..Len(CallArgs) : CallArgs[i] = Cleaned.kids[j]
    /\ Cleaned.kids = Survivors
    /\ \A i \in 1..Len(Survivors) :
         Survivors[i].k # "keyword" =>
           Get(artsyParams, Survivors[i].k) = Survivors[i].v

\* An empty keyword was dropped and forSale: false was kept.
C18_Witness ==
  /\ Sanitized
  /\ CallArgs = <<Prop("keyword", Str(<<>>)), Prop("forSale", Bool(FALSE))>>
  /\ Cleaned = Obj(<<Prop("forSale", Bool(FALSE))>>)
  /\ Get(artsyParams, "forSale") = Bool(FALSE)

\* What an invocation holds if it runs alone with request r, model outcome
\* o and catalog response u: the three steps one after the other.
Alone(e, r, o, u) ==
  LET f0 == Started(e, r)
  IN  IF f0.pc = "done" THEN f0
      ELSE LET f1 == AfterModel(e, f0, o)
           IN  IF f1.pc = "done" THEN f1 ELSE AfterCatalog(f1, u)

\* What the locals f would be, had the invocation got as far alone.
Expected(e, f) ==
  CASE f.pc = "idle" -> IdleFrame
    [] f.pc = "awaitModel" -> Started(e, f.req)
    [] f.pc = "awaitCatalog" -> AfterModel(e, Started(e, f.req), f.outcome)
    [] f.pc = "done" -> Alone(e, f.req, f.outcome, f.upstream)

\* The locals of the one-invocation machine, as a frame.
HandlerFrame ==
  [pc |-> pc, req |-> req, outcome |-> outcome, artsyParams |-> artsyParams,
   graphqlQuery |-> graphqlQuery, upstream |-> upstream, res |-> res]

\* The steps on frames are the steps of the one-invocation machine.
FrameAgreesWithHandler == HandlerFrame = Expected(env, HandlerFrame)

\* Every invocation holds what it would hold alone.
EachAsAlone == \A i \in Handlers : frames[i] = Expected(env, frames[i])

\* A step of one invocation leaves the locals of the others as they were.
OthersUntouched ==
  \A i \in Handlers :
    frames'[i] # frames[i] =>
      \A j \in Handlers \ {i} : frames'[j] = frames[j]

\* C16: in every interleaving of two concurrent requests at their suspension
\* points, each invocation's reply (and its FilterSpec and compiled query)
\* is the one it produces alone with the same model and catalog outcomes,
\* and no step of one invocation changes what the other holds.
C16_ConcurrentAsAlone == []EachAsAlone /\ [][OthersUntouched]_vars

\* One request is answered with 200 while another one, with another query,
\* cursor and FilterSpec, is suspended at its catalog call.
C16_Witness ==
  /\ frames[1].pc = "done"
  /\ frames[1].res.status = 200
  /\ frames[1].req = <<"POST", Str(<<"a">>), Undef>>
  /\ frames[2].pc = "awaitCatalog"
  /\ frames[2].req = <<"POST", Str(<<Quote>>), Cursor>>
  /\ frames[2].artsyParams # frames[1].artsyParams
  /\ frames[2].graphqlQuery # frames[1].graphqlQuery

\* C21: of two requests with the same query text, the initial search (no
\* cursor) and a load more (with a cursor), the compiled filter arguments
\* are the same.
C21_SameFiltersForLoadMore ==
  \A i, j \in Handlers :
    (/\ frames[i].pc = "awaitCatalog"
     /\ frames[j].pc = "awaitCatalog"
     /\ frames[i].req[2] = frames[j].req[2]
     /\ frames[i].req[3] = Undef
     /\ frames[j].req[3] = Cursor) =>
      frames[i].graphqlQuery.filterArgs = frames[j].graphqlQuery.filterArgs

\* A search request of the page has not been answered yet.
SearchInFlight == \E i \in 1..Len(inflight) : inflight[i].kind = "search"

\* A load-more request of the page has not been answered yet.
MoreInFlight == \E i \in 1..Len(inflight) : inflight[i].kind = "more"

\* C22: while the most recently submitted search is unanswered, nothing is
\* displayed from older requests: no response to an older load more is
\* appended to the results or written to hasNextPage / endCursor.
C22_NoStaleLoadMore ==
  SearchInFlight =>
    /\ page.results = <<>>
    /\ ~page.hasNextPage
    /\ page.endCursor = Null

\* C23: every load-more request carries the query text of the request whose
\* response supplied the cursor it sends as after.
C23_LoadMoreCarriesCursorQuery ==
  \A i \in 1..Len(inflight) :
    inflight[i].kind = "more" =>
      inflight[i].after = CursorFor(inflight[i].query)

\* The search requests of the page that are unanswered.
SearchesInFlight == SelectSeq(inflight, LAMBDA r : r.kind = "search")

\* At most one search and one timer at a time; isOnCooldown is true exactly
\* while the counter is above 0, which is while the timer is set.
CooldownConsistent ==
  /\ Len(SearchesInFlight) <= 1
  /\ Cardinality(timers) <= 1
  /\ page.isOnCooldown <=> page.cooldownTime > 0
  /\ page.isOnCooldown <=> timers # {}
  /\ page.cooldownTime \in 0..CooldownSeconds
  /\ SearchInFlight => ~page.isOnCooldown

\* A search is issued only with no search in flight and no cooldown; a search
\* that completes starts a cooldown of 5; any other change of the counter is
\* a decrease by one.
CooldownSteps ==
  /\ Len(SearchesInFlight') > Len(SearchesInFlight) =>
       /\ ~SearchInFlight
       /\ ~page.isOnCooldown
       /\ page.cooldownTime = 0
       /\ timers = {}
  /\ Len(SearchesInFlight') < Len(SearchesInFlight) =>
       /\ page'.isOnCooldown
       /\ page'.cooldownTime = CooldownSeconds
       /\ ~page'.isLoading
  /\ (/\ page'.cooldownTime # page.cooldownTime
      /\ Len(SearchesInFlight') = Len(SearchesInFlight)) =>
       page'.cooldownTime = page.cooldownTime - 1

\* Under fair timer ticks a cooldown ends with the counter at 0.
CooldownEnds ==
  page.isOnCooldown ~> (~page.isOnCooldown /\ page.cooldownTime = 0)

\* C24: no search is issued while a search is in flight or the cooldown is
\* active; every completed search starts a cooldown of 5; the counter
\* decreases by one per tick; at most one timer is set; isOnCooldown is true
\* exactly while the counter is above 0; and with the timer firing the
\* cooldown ends with the counter at 0.
C24_CooldownGatesSearches ==
  /\ []CooldownConsistent
  /\ [][CooldownSteps]_vars
  /\ CooldownEnds

\* A failed search was completed and its cooldown has run out.
C24_Witness ==
  /\ ~page.isFirstSearch
  /\ page.error = PageError
  /\ ~page.isOnCooldown
  /\ page.cooldownTime = 0
  /\ timers = {}
  /\ ~SearchInFlight

\* The load-more requests of the page that are unanswered.
MoresInFlight == SelectSeq(inflight, LAMBDA r : r.kind = "more")

\* The page after a load more that succeeded with this reply.
LoadMoreSucceeded(reply) ==
  /\ page'.results = page.results \o reply.edges
  /\ page'.hasNextPage = reply.hasNextPage
  /\ page'.endCursor = reply.endCursor

\* The page after a load more that failed.
LoadMoreLeftResults ==
  /\ page'.results = page.results
  /\ page'.error = PageError
  /\ ~page'.hasNextPage

\* A load more is issued only with none in flight, hasNextPage true and a
\* non-empty endCursor; its answer either appends the returned edges and
\* replaces hasNextPage / endCursor, or leaves the results, sets the error
\* and sets hasNextPage to false.
LoadMoreSteps ==
  /\ Len(MoresInFlight') > Len(MoresInFlight) =>
       /\ ~MoreInFlight
       /\ page.hasNextPage
       /\ Truthy(page.endCursor)
  /\ Len(MoresInFlight') < Len(MoresInFlight) =>
       /\ ~page'.isLoadingMore
       /\ \/ LoadMoreLeftResults
          \/ \E reply \in ApiReplies(MoresInFlight[1]) :
               /\ reply.ok
               /\ ~reply.hasError
               /\ LoadMoreSucceeded(reply)

\* C25: a load more is issued only when none is in flight, hasNextPage is
\* true and endCursor is non-empty; a successful one appends the returned
\* edges and replaces hasNextPage / endCursor with the returned pageInfo; a
\* failed one leaves the results unchanged, sets the error and sets
\* hasNextPage to false.
C25_LoadMoreEffects == [][LoadMoreSteps]_vars

====
